---- MODULE Spec2Model ----
(***************************************************************************)
(* Model of the DopplerBroadening class (header, DopplerBroadening.cpp)    *)
(* and of the plotting macro DopplerBroadeningCalc.C.                      *)
(*                                                                         *)
(* Double_t / float values are modelled as fixed-point numbers: the        *)
(* integer v stands for v / SCALE.  Every arithmetic operation rounds its  *)
(* exact result to the nearest representable value, as an IEEE operation   *)
(* does, and follows the IEEE rules for infinities and NaN.                *)
(***************************************************************************)
EXTENDS Integers, Sequences, FiniteSets, TLC

\* ------------------------------------------------------------------------
\* Double_t arithmetic
\* ------------------------------------------------------------------------
SCALE == 1000

PosInf == 1000000000
NegInf == 0 - PosInf
NaN == 1000000001

IsNaN(x) == x = NaN
IsInf(x) == x = PosInf \/ x = NegInf
IsFinite(x) == ~IsNaN(x) /\ ~IsInf(x)

IAbs(n) == IF n < 0 THEN 0 - n ELSE n
Sgn(n) == IF n < 0 THEN 0 - 1 ELSE IF n > 0 THEN 1 ELSE 0

\* n / d for d > 0, rounded to the nearest integer (ties away from zero).
RoundDiv(n, d) == Sgn(n) * ((2 * IAbs(n) + d) \div (2 * d))

RECURSIVE Bisect(_, _, _)
Bisect(lo, hi, n) ==
    IF hi - lo <= 1 THEN lo
    ELSE LET mid == (lo + hi) \div 2
         IN IF mid * mid <= n THEN Bisect(mid, hi, n) ELSE Bisect(lo, mid, n)

\* Largest r with r * r <= n, for 0 <= n < 46340 * 46340.
ISqrt(n) == Bisect(0, 46340, n)

FNeg(a) == IF IsNaN(a) THEN NaN ELSE 0 - a

FAdd(a, b) ==
    IF IsNaN(a) \/ IsNaN(b) THEN NaN
    ELSE IF IsInf(a) /\ IsInf(b) THEN (IF a = b THEN a ELSE NaN)
    ELSE IF IsInf(a) THEN a
    ELSE IF IsInf(b) THEN b
    ELSE a + b

FSub(a, b) == FAdd(a, FNeg(b))

FMul(a, b) ==
    IF IsNaN(a) \/ IsNaN(b) THEN NaN
    ELSE IF IsInf(a) \/ IsInf(b)
         THEN (IF a = 0 \/ b = 0 THEN NaN
               ELSE IF Sgn(a) * Sgn(b) > 0 THEN PosInf ELSE NegInf)
    ELSE RoundDiv(a * b, SCALE)

FDiv(a, b) ==
    IF IsNaN(a) \/ IsNaN(b) THEN NaN
    ELSE IF IsInf(a) THEN (IF IsInf(b) THEN NaN
                           ELSE IF Sgn(a) * (IF b < 0 THEN 0 - 1 ELSE 1) > 0
                                THEN PosInf ELSE NegInf)
    ELSE IF IsInf(b) THEN 0
    ELSE IF b = 0 THEN (IF a = 0 THEN NaN
                        ELSE IF a > 0 THEN PosInf ELSE NegInf)
    ELSE Sgn(b) * RoundDiv(a * SCALE, IAbs(b))

\* sqrt(): NaN for a negative argument.
sqrt(a) ==
    IF IsNaN(a) \/ a < 0 THEN NaN
    ELSE IF IsInf(a) THEN PosInf
    ELSE LET r == ISqrt(a * SCALE)
         IN IF (a * SCALE) - (r * r) > r THEN r + 1 ELSE r

\* pow(x, 2)
pow2(a) == FMul(a, a)

\* fabs / std::abs(double)
fabs(a) == IF IsNaN(a) THEN NaN ELSE IAbs(a)

\* ::abs(int) applied to a double: the argument is converted to int
\* (truncation toward zero) and the int result converted back.
iabs(a) == (IAbs(a) \div SCALE) * SCALE

Num(n) == n * SCALE
One == Num(1)

\* TMath::Pi() and TMath::DegToRad() = Pi() / 180
Pi == 3142
DegToRad == FDiv(Pi, Num(180))

\* Angles (in whole degrees) at which the functions are sampled, inside the
\* TF1 range [0, 180].
Angles == {0, 30, 45, 60, 90, 120, 135, 150, 180}

CosDeg(d) ==
    CASE d = 0 -> 1000 [] d = 30 -> 866 [] d = 45 -> 707 [] d = 60 -> 500
      [] d = 90 -> 0 [] d = 120 -> 0 - 500 [] d = 135 -> 0 - 707
      [] d = 150 -> 0 - 866 [] d = 180 -> 0 - 1000

SinDeg(d) ==
    CASE d = 0 -> 0 [] d = 30 -> 500 [] d = 45 -> 707 [] d = 60 -> 866
      [] d = 90 -> 1000 [] d = 120 -> 866 [] d = 135 -> 707
      [] d = 150 -> 500 [] d = 180 -> 0

\* The sampled angle whose conversion to radians is rad.
DegOfRad(rad) == CHOOSE d \in Angles : FMul(Num(d), DegToRad) = rad

\* cos() and sin() of an angle in radians.
cos(rad) == CosDeg(DegOfRad(rad))
sin(rad) == SinDeg(DegOfRad(rad))

\* ------------------------------------------------------------------------
\* The static member functions.  ang and par are the C arrays, ang[0] is
\* At(ang, 0) and par[i] is At(par, i).
\* ------------------------------------------------------------------------
At(arr, i) == arr[i + 1]

\* The overload the unqualified call abs(double) resolves to, "double" for
\* std::abs(double) and "int" for ::abs(int).
AbsOverloads == {"double", "int"}
abs(ov, a) == IF ov = "int" THEN iabs(a) ELSE fabs(a)

\* DopplerShift with the numerator sqrt(1 - beta^2) of the class
\* documentation in place of 1 - beta^2.
DopplerShift_SqrtNumerator(ang, par) ==
    FDiv(FMul(At(par, 0), sqrt(FSub(One, pow2(At(par, 1))))),
         FSub(One, FMul(At(par, 1), cos(FMul(At(ang, 0), DegToRad)))))

DopplerShift(ang, par) ==
    FDiv(FMul(At(par, 0), FSub(One, pow2(At(par, 1)))),
         FSub(One, FMul(At(par, 1), cos(FMul(At(ang, 0), DegToRad)))))

\* EnergyBroadening at the energy shift E' - E instead of the shifted
\* energy E'.
EnergyBroadening_ShiftOnly(ang, par) ==
    FDiv(At(par, 3), sqrt(FSub(DopplerShift(ang, par), At(par, 0))))

EnergyBroadening(ang, par) ==
    FDiv(At(par, 3), sqrt(DopplerShift(ang, par)))

\* SolidAngleBroadening with cos in place of sin in the numerator.
SolidAngleBroadening_Cos(ang, par) ==
    LET angleRad == FMul(At(ang, 0), DegToRad)
    IN FDiv(FMul(FMul(At(par, 2), At(par, 1)), cos(angleRad)),
            FSub(One, FMul(At(par, 1), cos(angleRad))))

SolidAngleBroadening(ang, par) ==
    LET angleRad == FMul(At(ang, 0), DegToRad)
    IN FDiv(FMul(FMul(At(par, 2), At(par, 1)), sin(angleRad)),
            FSub(One, FMul(At(par, 1), cos(angleRad))))

\* BetaBroadening with the absolute value left out.
BetaBroadening_NoAbs(ov, ang, par) ==
    LET angleRad == FMul(At(ang, 0), DegToRad)
    IN FDiv(FMul(At(par, 4), FSub(cos(angleRad), At(par, 1))),
            FMul(FSub(One, pow2(At(par, 1))),
                 FSub(One, FMul(At(par, 1), cos(angleRad)))))

BetaBroadening(ov, ang, par) ==
    LET angleRad == FMul(At(ang, 0), DegToRad)
    IN FDiv(FMul(At(par, 4), abs(ov, FSub(cos(angleRad), At(par, 1)))),
            FMul(FSub(One, pow2(At(par, 1))),
                 FSub(One, FMul(At(par, 1), cos(angleRad)))))

\* TotalBroadening with a fourth term under the root.
TotalBroadening_FourTerms(ov, ang, par) ==
    sqrt(FAdd(FAdd(FAdd(pow2(EnergyBroadening(ang, par)),
                        pow2(SolidAngleBroadening(ang, par))),
                   pow2(BetaBroadening(ov, ang, par))),
              pow2(FDiv(At(par, 3), At(par, 0)))))

TotalBroadening(ov, ang, par) ==
    sqrt(FAdd(FAdd(pow2(EnergyBroadening(ang, par)),
                   pow2(SolidAngleBroadening(ang, par))),
              pow2(BetaBroadening(ov, ang, par))))

\* ------------------------------------------------------------------------
\* TF1 function objects
\* ------------------------------------------------------------------------
\* new TF1(name, fcn, 0, 180, 5): five parameters, all zero.
NewTF1(name, fcn) ==
    [name |-> name, title |-> name, fcn |-> fcn,
     xmin |-> Num(0), xmax |-> Num(180), par |-> <<0, 0, 0, 0, 0>>,
     minimum |-> "unset", lineColor |-> "default",
     xTitle |-> "", yTitle |-> ""]

SetTitle(f, t) == [f EXCEPT !.title = t]
SetParameters(f, p0, p1, p2, p3, p4) == [f EXCEPT !.par = <<p0, p1, p2, p3, p4>>]
SetMinimum(f, m) == [f EXCEPT !.minimum = m]
SetLineColor(f, c) == [f EXCEPT !.lineColor = c]
SetAxisTitles(f, xt, yt) == [f EXCEPT !.xTitle = xt, !.yTitle = yt]

\* TF1::Eval(x): the wrapped function applied to x and the object's own
\* parameter array.
TF1Eval(ov, f, x) ==
    CASE f.fcn = "EnergyBroadening" -> EnergyBroadening(<<x>>, f.par)
      [] f.fcn = "SolidAngleBroadening" -> SolidAngleBroadening(<<x>>, f.par)
      [] f.fcn = "BetaBroadening" -> BetaBroadening(ov, <<x>>, f.par)
      [] f.fcn = "TotalBroadening" -> TotalBroadening(ov, <<x>>, f.par)

\* TF1::Draw on the pointer (obj, mem) to f: the function is sampled over
\* its range and the pad keeps the pointer with the painted curve.
Draw(ov, obj, mem, f) ==
    [tf1 |-> [obj |-> obj, mem |-> mem], title |-> f.title,
     lineColor |-> f.lineColor, minimum |-> f.minimum,
     curve |-> [d \in Angles |-> TF1Eval(ov, f, Num(d))]]

\* ------------------------------------------------------------------------
\* class DopplerBroadening
\* ------------------------------------------------------------------------
\* UpdateParameters passing the coverage in degrees, unconverted.
UpdateParameters_Degrees(m) ==
    [m EXCEPT
       !.energyBroadening_ = SetParameters(@, m.energyMeV_, m.beta_,
            m.dThetaDeg_, m.resolutionConst_, m.dBeta_),
       !.solidAngleBroadening_ = SetParameters(@, m.energyMeV_, m.beta_,
            m.dThetaDeg_, m.resolutionConst_, m.dBeta_),
       !.betaBroadening_ = SetParameters(@, m.energyMeV_, m.beta_,
            m.dThetaDeg_, m.resolutionConst_, m.dBeta_),
       !.totalBroadening_ = SetParameters(@, m.energyMeV_, m.beta_,
            m.dThetaDeg_, m.resolutionConst_, m.dBeta_)]

UpdateParameters(m) ==
    [m EXCEPT
       !.energyBroadening_ = SetParameters(@, m.energyMeV_, m.beta_,
            FMul(m.dThetaDeg_, DegToRad), m.resolutionConst_, m.dBeta_),
       !.solidAngleBroadening_ = SetParameters(@, m.energyMeV_, m.beta_,
            FMul(m.dThetaDeg_, DegToRad), m.resolutionConst_, m.dBeta_),
       !.betaBroadening_ = SetParameters(@, m.energyMeV_, m.beta_,
            FMul(m.dThetaDeg_, DegToRad), m.resolutionConst_, m.dBeta_),
       !.totalBroadening_ = SetParameters(@, m.energyMeV_, m.beta_,
            FMul(m.dThetaDeg_, DegToRad), m.resolutionConst_, m.dBeta_)]

\* A constructor that rejects arguments outside the documented domains.
ConstructorOutcome_Validating(energyMeV, beta, dThetaDeg, resolutionConst, dBeta) ==
    IF energyMeV <= 0 \/ beta <= 0 - One \/ beta >= One \/ dThetaDeg < 0
       \/ resolutionConst < 0 \/ dBeta < 0
    THEN "InvalidParameter" ELSE "constructed"

\* How the constructor ends: its body has no test of an argument, no throw
\* and no early return, so it always runs to completion.
ConstructorOutcome(energyMeV, beta, dThetaDeg, resolutionConst, dBeta) ==
    "constructed"

\* DopplerBroadening::DopplerBroadening: the object the constructor leaves.
\* The constructor has no failure path: every argument tuple yields an object.
NewDopplerBroadening(energyMeV, beta, dThetaDeg, resolutionConst, dBeta) ==
    UpdateParameters(
      [energyMeV_ |-> energyMeV, beta_ |-> beta, dThetaDeg_ |-> dThetaDeg,
       resolutionConst_ |-> resolutionConst, dBeta_ |-> dBeta,
       energyBroadening_ |->
          SetTitle(NewTF1("energyBroadening", "EnergyBroadening"),
                   "Energy Broadening"),
       solidAngleBroadening_ |->
          SetTitle(NewTF1("solidAngleBroadening", "SolidAngleBroadening"),
                   "Solid Angle Broadening"),
       betaBroadening_ |->
          SetTitle(NewTF1("betaBroadening", "BetaBroadening"),
                   "Beta Broadening"),
       totalBroadening_ |->
          SetTitle(NewTF1("totalBroadening", "TotalBroadening"),
                   "Total Broadening"),
       outcome |-> ConstructorOutcome(energyMeV, beta, dThetaDeg,
                                      resolutionConst, dBeta),
       inScope |-> TRUE])

Members == {"energyBroadening_", "solidAngleBroadening_", "betaBroadening_",
            "totalBroadening_"}

\* The TF1 a member pointer of object m points to.
Deref(m, mem) ==
    CASE mem = "energyBroadening_" -> m.energyBroadening_
      [] mem = "solidAngleBroadening_" -> m.solidAngleBroadening_
      [] mem = "betaBroadening_" -> m.betaBroadening_
      [] mem = "totalBroadening_" -> m.totalBroadening_

\* ------------------------------------------------------------------------
\* State
\* ------------------------------------------------------------------------
VARIABLES
    absOverload,  \* overload that abs(double) resolves to in this build
    models,       \* the DopplerBroadening objects constructed so far
    handle,       \* TF1 pointer the caller got from the last getter call
    lastEval,     \* angle and value of the caller's last Eval on handle
    gPad          \* functions drawn on the current pad, and its legend

vars == <<absOverload, models, handle, lastEval, gPad>>

NoHandle == [obj |-> 0, mem |-> "none"]
NoEval == [done |-> FALSE, ang |-> 0, value |-> 0]

\* Constructor arguments tried, as fixed-point values.
EnergyVals == {0 - 1000, 0, 1000, 2000}
BetaVals == {0 - 1000, 0 - 500, 0, 500, 900, 1000}
DThetaVals == {0 - 1000, 0, 10000}
ResolutionVals == {0 - 1000, 0, 1000}
DBetaVals == {0 - 10, 0, 10}

Init ==
    /\ absOverload \in AbsOverloads
    /\ models = << >>
    /\ handle = NoHandle
    /\ lastEval = NoEval
    /\ gPad = [primitives |-> << >>, legend |-> FALSE]

\* DopplerBroadening broadening(energyMeV, beta, dThetaDeg, resolutionConst, dBeta)
Construct(energyMeV, beta, dThetaDeg, resolutionConst, dBeta) ==
    /\ models' = Append(models,
          NewDopplerBroadening(energyMeV, beta, dThetaDeg, resolutionConst, dBeta))
    /\ UNCHANGED <<absOverload, handle, lastEval, gPad>>

Getter(i, mem) ==
    /\ i \in 1..Len(models)
    /\ models[i].inScope
    /\ handle' = [obj |-> i, mem |-> mem]
    /\ lastEval' = NoEval
    /\ UNCHANGED <<absOverload, models, gPad>>

GetEnergyBroadening(i) == Getter(i, "energyBroadening_")
GetSolidAngleBroadening(i) == Getter(i, "solidAngleBroadening_")
GetBetaBroadening(i) == Getter(i, "betaBroadening_")
GetTotalBroadening(i) == Getter(i, "totalBroadening_")

\* Eval that finds the function object by its name, which every object
\* gives to its TF1s alike, and so reaches the most recently constructed one.
Eval_ByName(d) ==
    /\ handle # NoHandle
    /\ lastEval' = [done |-> TRUE, ang |-> d,
                    value |-> TF1Eval(absOverload,
                                      Deref(models[Len(models)], handle.mem),
                                      Num(d))]
    /\ UNCHANGED <<absOverload, models, handle, gPad>>

\* handle->Eval(ang)
Eval(d) ==
    /\ handle # NoHandle
    /\ lastEval' = [done |-> TRUE, ang |-> d,
                    value |-> TF1Eval(absOverload,
                                      Deref(models[handle.obj], handle.mem),
                                      Num(d))]
    /\ UNCHANGED <<absOverload, models, handle, gPad>>

\* The macro calling SetParameter(0, 0) where it means SetMinimum(0).
CalcObject_SetParameter(energyMeV, beta, dThetaDeg, resolutionConst, dBeta) ==
    LET b == NewDopplerBroadening(energyMeV, beta, dThetaDeg, resolutionConst, dBeta)
    IN [b EXCEPT
          !.totalBroadening_ =
              SetAxisTitles(SetLineColor([@ EXCEPT !.par[1] = 0], "kBlack"),
                            "Angle [#circ]", "Resolution [dE/E]"),
          !.energyBroadening_ = SetLineColor(SetMinimum(@, "0"), "kBlue"),
          !.betaBroadening_ = SetLineColor(@, "kGreen+1"),
          !.inScope = FALSE]

\* The object DopplerBroadeningCalc leaves behind.
CalcObject(energyMeV, beta, dThetaDeg, resolutionConst, dBeta) ==
    LET b == NewDopplerBroadening(energyMeV, beta, dThetaDeg, resolutionConst, dBeta)
    IN [b EXCEPT
          !.totalBroadening_ =
              SetAxisTitles(SetLineColor(SetMinimum(@, "0"), "kBlack"),
                            "Angle [#circ]", "Resolution [dE/E]"),
          !.energyBroadening_ = SetLineColor(SetMinimum(@, "0"), "kBlue"),
          !.betaBroadening_ = SetLineColor(@, "kGreen+1"),
          !.inScope = FALSE]

\* DopplerBroadeningCalc(energyMeV, beta, dThetaDeg, resolutionConst, dBeta)
DopplerBroadeningCalc(energyMeV, beta, dThetaDeg, resolutionConst, dBeta) ==
    LET b == CalcObject(energyMeV, beta, dThetaDeg, resolutionConst, dBeta)
        n == Len(models) + 1
    IN /\ models' = Append(models, b)
       /\ gPad' = [primitives |->
                     <<Draw(absOverload, n, "totalBroadening_", b.totalBroadening_),
                       Draw(absOverload, n, "energyBroadening_", b.energyBroadening_),
                       Draw(absOverload, n, "solidAngleBroadening_",
                            b.solidAngleBroadening_),
                       Draw(absOverload, n, "betaBroadening_", b.betaBroadening_)>>,
                   legend |-> TRUE]
       /\ UNCHANGED <<absOverload, handle, lastEval>>

Next ==
    \/ \E e \in EnergyVals, b \in BetaVals, dt \in DThetaVals,
          rc \in ResolutionVals, db \in DBetaVals :
          /\ models = << >>
          /\ Construct(e, b, dt, rc, db)
    \/ \E e \in EnergyVals, b \in BetaVals, dt \in DThetaVals,
          rc \in ResolutionVals, db \in DBetaVals :
          /\ models = << >>
          /\ DopplerBroadeningCalc(e, b, dt, rc, db)
    \/ \E i \in 1..Len(models) : GetEnergyBroadening(i)
    \/ \E i \in 1..Len(models) : GetSolidAngleBroadening(i)
    \/ \E i \in 1..Len(models) : GetBetaBroadening(i)
    \/ \E i \in 1..Len(models) : GetTotalBroadening(i)
    \/ \E d \in Angles : Eval(d)

Spec == Init /\ [][Next]_vars

\* Several objects with different parameters, constructed and evaluated in
\* any interleaving.
MaxModels == 2
MultiEnergyVals == {1000, 2000}
MultiBetaVals == {0 - 500, 0, 500}

NextMulti ==
    \/ \E e \in MultiEnergyVals, b \in MultiBetaVals :
          /\ Len(models) < MaxModels
          /\ Construct(e, b, 10000, 1000, 10)
    \/ \E i \in 1..Len(models) : GetEnergyBroadening(i)
    \/ \E i \in 1..Len(models) : GetSolidAngleBroadening(i)
    \/ \E i \in 1..Len(models) : GetBetaBroadening(i)
    \/ \E i \in 1..Len(models) : GetTotalBroadening(i)
    \/ \E d \in Angles : Eval(d)

SpecMulti == Init /\ [][NextMulti]_vars

\* ------------------------------------------------------------------------
\* Observations: every value a caller or the pad has obtained from a
\* function object, with the object, the member and the angle in degrees.
\* ------------------------------------------------------------------------
Observations ==
    (IF lastEval.done
     THEN {[obj |-> handle.obj, mem |-> handle.mem, ang |-> lastEval.ang,
            value |-> lastEval.value]}
     ELSE {})
    \cup
    {[obj |-> gPad.primitives[k].tf1.obj, mem |-> gPad.primitives[k].tf1.mem,
      ang |-> d, value |-> gPad.primitives[k].curve[d]] :
        k \in 1..Len(gPad.primitives), d \in Angles}

\* The documented parameter domains.
ValidParams(m) ==
    /\ m.energyMeV_ > 0
    /\ m.beta_ > 0 - One /\ m.beta_ < One
    /\ m.dThetaDeg_ >= 0
    /\ m.resolutionConst_ >= 0
    /\ m.dBeta_ >= 0

\* The four parameter vectors of an object.
ParVectors(m) == [mem \in Members |-> Deref(m, mem).par]

\* x is a number (not NaN) and x >= 0.
NonNegative(x) == ~IsNaN(x) /\ x >= 0

\* The value of member mem of the observed object at the observed angle.
ValueAt(o, mem) ==
    TF1Eval(absOverload, Deref(models[o.obj], mem), Num(o.ang))

\* ------------------------------------------------------------------------
\* C1
\* ------------------------------------------------------------------------
\* C1 (as stated): constructing an object with energyMeV <= 0, |beta| >= 1,
\* a negative angular coverage, a negative resolutionConst or a negative
\* beta spread ends in an InvalidParameter outcome.
C1_InvalidParameterRaised ==
    \A i \in 1..Len(models) :
        ~ValidParams(models[i]) => models[i].outcome = "InvalidParameter"

\* C1 (amended): construction validates nothing.  Whatever the five
\* arguments are, also outside the documented domains, the constructor
\* completes and leaves an object whose four function objects carry the
\* arguments as their parameters and can be evaluated.
C1_ConstructionNeverFails ==
    \A i \in 1..Len(models) :
        /\ models[i].outcome = "constructed"
        /\ \A mem \in Members :
              /\ At(Deref(models[i], mem).par, 0) = models[i].energyMeV_
              /\ At(Deref(models[i], mem).par, 1) = models[i].beta_
              /\ At(Deref(models[i], mem).par, 3) = models[i].resolutionConst_
              /\ At(Deref(models[i], mem).par, 4) = models[i].dBeta_

\* An object built from arguments outside the domains has been evaluated.
C1_Witness ==
    \E o \in Observations :
        /\ ~ValidParams(models[o.obj])
        /\ models[o.obj].energyMeV_ <= 0

\* ------------------------------------------------------------------------
\* C2
\* ------------------------------------------------------------------------
\* t * t equals s up to the rounding of the square root.
SquareIs(t, s) == t >= 0 /\ IAbs((t * t) - (s * SCALE)) <= t

\* C2: at every angle the square of TotalBroadening equals the sum of the
\* squares of EnergyBroadening, SolidAngleBroadening and BetaBroadening of
\* the same object, with these three terms and no other.
C2_TotalIsRootSumSquare ==
    \A o \in Observations :
        o.mem = "totalBroadening_" =>
            LET sum == FAdd(FAdd(pow2(ValueAt(o, "energyBroadening_")),
                                 pow2(ValueAt(o, "solidAngleBroadening_"))),
                            pow2(ValueAt(o, "betaBroadening_")))
            IN IF IsFinite(sum) THEN IsFinite(o.value) /\ SquareIs(o.value, sum)
               ELSE o.value = sum

\* A total with three non-zero terms has been evaluated.
C2_Witness ==
    \E o \in Observations :
        /\ o.mem = "totalBroadening_"
        /\ IsFinite(o.value)
        /\ ValueAt(o, "energyBroadening_") > 0
        /\ ValueAt(o, "solidAngleBroadening_") > 0
        /\ ValueAt(o, "betaBroadening_") > 0

\* ------------------------------------------------------------------------
\* C3
\* ------------------------------------------------------------------------
\* C3: with energyMeV > 0, beta in [0, 1), coverage >= 0, resolutionConst >= 0
\* and beta spread >= 0, EnergyBroadening, SolidAngleBroadening and
\* BetaBroadening are >= 0 at every angle in [0, 180] degrees.
C3_ComponentsNonNegative ==
    \A o \in Observations :
        (/\ ValidParams(models[o.obj])
         /\ models[o.obj].beta_ >= 0
         /\ o.mem \in {"energyBroadening_", "solidAngleBroadening_",
                       "betaBroadening_"})
        => NonNegative(o.value)

\* BetaBroadening has been evaluated where cos(theta) < beta.
C3_Witness ==
    \E o \in Observations :
        /\ ValidParams(models[o.obj])
        /\ models[o.obj].beta_ > 0
        /\ o.mem = "betaBroadening_"
        /\ CosDeg(o.ang) < models[o.obj].beta_
        /\ o.value > 0

\* ------------------------------------------------------------------------
\* C4
\* ------------------------------------------------------------------------
\* C4 (as stated): with parameters in the documented domains, beta anywhere
\* in (-1, 1), each of the four functions returns a value >= 0 at every
\* angle in [0, 180] degrees.
C4_AllNonNegative ==
    \A o \in Observations :
        ValidParams(models[o.obj]) => NonNegative(o.value)

\* C4 (amended): with parameters in the documented domains, EnergyBroadening,
\* BetaBroadening and TotalBroadening are >= 0 at every angle in [0, 180]
\* degrees, and SolidAngleBroadening has the sign of beta: >= 0 when
\* beta >= 0 and <= 0 when beta < 0.
C4_NonNegativeExceptSolidAngle ==
    \A o \in Observations :
        ValidParams(models[o.obj]) =>
            /\ ~IsNaN(o.value)
            /\ o.mem # "solidAngleBroadening_" => o.value >= 0
            /\ (o.mem = "solidAngleBroadening_" /\ models[o.obj].beta_ >= 0)
                  => o.value >= 0
            /\ (o.mem = "solidAngleBroadening_" /\ models[o.obj].beta_ < 0)
                  => o.value <= 0

\* SolidAngleBroadening has been evaluated negative for a negative beta.
C4_Witness ==
    \E o \in Observations :
        /\ ValidParams(models[o.obj])
        /\ models[o.obj].beta_ < 0
        /\ o.mem = "solidAngleBroadening_"
        /\ o.value < 0

\* ------------------------------------------------------------------------
\* C5
\* ------------------------------------------------------------------------
\* C5: when beta = 0 (the other parameters in their domains), at every angle DopplerShift equals energyMeV,
\* SolidAngleBroadening equals 0 and BetaBroadening equals
\* betaSpread * |cos(theta)|, the absolute value being that of the real
\* number (betaSpread / 2 at 60 degrees).
C5_ZeroBeta ==
    \A o \in Observations :
        (ValidParams(models[o.obj]) /\ models[o.obj].beta_ = 0) =>
            LET m == models[o.obj]
            IN /\ DopplerShift(<<Num(o.ang)>>, Deref(m, o.mem).par) = m.energyMeV_
               /\ o.mem = "solidAngleBroadening_" => o.value = 0
               /\ o.mem = "betaBroadening_" =>
                     o.value = FMul(m.dBeta_, IAbs(CosDeg(o.ang)))

\* ------------------------------------------------------------------------
\* C6
\* ------------------------------------------------------------------------
\* The shifted energy written with the named quantities.
ShiftedEnergy(m, d) ==
    FDiv(FMul(m.energyMeV_, FSub(One, FMul(m.beta_, m.beta_))),
         FSub(One, FMul(m.beta_, CosDeg(d))))

C7_NoSingularity ==
    \A o \in Observations :
        LET m == models[o.obj]
            par == Deref(m, o.mem).par
            den == FSub(One, FMul(At(par, 1), cos(FMul(Num(o.ang), DegToRad))))
            shift == DopplerShift(<<Num(o.ang)>>, par)
        IN (m.energyMeV_ > 0 /\ m.beta_ > 0 - One /\ m.beta_ < One) =>
              /\ IsFinite(den) /\ den > 0
              /\ IsFinite(shift) /\ shift > 0
              /\ IsFinite(o.value)

\* A function has been evaluated at beta = 0.9 and 0 degrees, where the
\* denominator is smallest.
C7_Witness ==
    \E o \in Observations :
        /\ models[o.obj].energyMeV_ > 0
        /\ models[o.obj].beta_ = 900
        /\ o.ang = 0
        /\ o.mem = "energyBroadening_"
        /\ models[o.obj].resolutionConst_ > 0
        /\ o.value > 0

\* ------------------------------------------------------------------------
\* C8
\* ------------------------------------------------------------------------
\* The five stored parameters and the four parameter vectors of an object.
ParamState(m) ==
    <<m.energyMeV_, m.beta_, m.dThetaDeg_, m.resolutionConst_, m.dBeta_,
      ParVectors(m)>>

\* C8: after construction no public operation (the four getters, the
\* evaluations, the plotting sequence of DopplerBroadeningCalc) changes the
\* five stored parameters or the parameter vector of a function object, and
\* evaluating the same function at the same angle returns the same value.
C8_ReadOnlyAfterConstruction ==
    [][/\ Len(models') >= Len(models)
       /\ \A i \in 1..Len(models) : ParamState(models'[i]) = ParamState(models[i])
       /\ \A i \in (Len(models) + 1)..Len(models') :
             ParVectors(models'[i]) = ParVectors(UpdateParameters(models'[i]))
       /\ \A o \in Observations : \A n \in Observations' :
             (o.obj = n.obj /\ o.mem = n.mem /\ o.ang = n.ang)
                => o.value = n.value]_vars

\* The plotting sequence has run on an object with non-zero parameters.
C8_Witness ==
    /\ gPad.legend
    /\ Len(gPad.primitives) = 4
    /\ gPad.primitives[1].minimum = "0"
    /\ models[1].energyMeV_ > 0

\* ------------------------------------------------------------------------
\* C9
\* ------------------------------------------------------------------------
\* The parameter vector that follows from an object's own five parameters.
OwnPar(m) ==
    <<m.energyMeV_, m.beta_, FMul(m.dThetaDeg_, FDiv(Pi, Num(180))),
      m.resolutionConst_, m.dBeta_>>

\* The function a member evaluates, applied to a parameter vector.
FcnOfMember(mem, d, par) ==
    CASE mem = "energyBroadening_" -> EnergyBroadening(<<Num(d)>>, par)
      [] mem = "solidAngleBroadening_" -> SolidAngleBroadening(<<Num(d)>>, par)
      [] mem = "betaBroadening_" -> BetaBroadening(absOverload, <<Num(d)>>, par)
      [] mem = "totalBroadening_" -> TotalBroadening(absOverload, <<Num(d)>>, par)

\* C9: with several objects of different parameters, constructed and
\* evaluated in any interleaving, every result depends only on the
\* parameters of the object it was obtained from and on theta.
C9_InstancesIndependent ==
    \A o \in Observations :
        o.value = FcnOfMember(o.mem, o.ang, OwnPar(models[o.obj]))

\* The first object has been evaluated after a second one with other
\* parameters was constructed, and the second would have given another value.
C9_Witness ==
    /\ Len(models) >= 2
    /\ lastEval.done
    /\ handle.obj = 1
    /\ lastEval.value # FcnOfMember(handle.mem, lastEval.ang, OwnPar(models[2]))

\* ------------------------------------------------------------------------
\* C10
\* ------------------------------------------------------------------------
\* C10: after construction all four function objects hold the same vector
\* (energyMeV, beta, dThetaDeg * pi / 180, resolutionConst, dBeta), in this
\* order and with the coverage converted from degrees to radians, and each
\* formula reads the index that holds its quantity.
C10_ParameterVector ==
    /\ \A i \in 1..Len(models) : \A mem \in Members :
          LET m == models[i]
              par == Deref(m, mem).par
          IN /\ Len(par) = 5
             /\ At(par, 0) = m.energyMeV_
             /\ At(par, 1) = m.beta_
             /\ At(par, 2) = RoundDiv(m.dThetaDeg_ * RoundDiv(Pi * SCALE, Num(180)), SCALE)
             /\ At(par, 3) = m.resolutionConst_
             /\ At(par, 4) = m.dBeta_
    /\ \A o \in Observations :
          LET m == models[o.obj]
              c == CosDeg(o.ang)
              rad == RoundDiv(m.dThetaDeg_ * RoundDiv(Pi * SCALE, Num(180)), SCALE)
              den == FSub(One, FMul(m.beta_, c))
          IN /\ o.mem = "energyBroadening_" =>
                  o.value = FDiv(m.resolutionConst_, sqrt(ShiftedEnergy(m, o.ang)))
             /\ o.mem = "solidAngleBroadening_" =>
                  o.value = FDiv(FMul(FMul(rad, m.beta_), SinDeg(o.ang)), den)
             /\ o.mem = "betaBroadening_" =>
                  o.value = FDiv(FMul(m.dBeta_, abs(absOverload, FSub(c, m.beta_))),
                                 FMul(FSub(One, FMul(m.beta_, m.beta_)), den))

\* SolidAngleBroadening has been evaluated for a coverage of 10 degrees,
\* stored as 0.17 rad.
C10_Witness ==
    \E o \in Observations :
        /\ models[o.obj].dThetaDeg_ = 10000
        /\ At(Deref(models[o.obj], o.mem).par, 2) = 170
        /\ o.mem = "solidAngleBroadening_"
        /\ o.value > 0
\* ------------------------------------------------------------------------
\* The second variant of the header: the same class, BetaBroadening
\* dividing twice instead of dividing by a product.
\* ------------------------------------------------------------------------
DopplerShift_v2(ang, par) ==
    FDiv(FMul(At(par, 0), FSub(One, pow2(At(par, 1)))),
         FSub(One, FMul(At(par, 1), cos(FMul(At(ang, 0), DegToRad)))))

EnergyBroadening_v2(ang, par) ==
    FDiv(At(par, 3), sqrt(DopplerShift_v2(ang, par)))

SolidAngleBroadening_v2(ang, par) ==
    LET angleRad == FMul(At(ang, 0), DegToRad)
    IN FDiv(FMul(FMul(At(par, 2), At(par, 1)), sin(angleRad)),
            FSub(One, FMul(At(par, 1), cos(angleRad))))

\* BetaBroadening of the second variant dividing by 1 + beta^2.
BetaBroadening_v2_PlusSquare(ov, ang, par) ==
    LET angleRad == FMul(At(ang, 0), DegToRad)
    IN FDiv(FDiv(FMul(At(par, 4), abs(ov, FSub(cos(angleRad), At(par, 1)))),
                 FSub(One, FMul(At(par, 1), cos(angleRad)))),
            FAdd(One, pow2(At(par, 1))))

BetaBroadening_v2(ov, ang, par) ==
    LET angleRad == FMul(At(ang, 0), DegToRad)
    IN FDiv(FDiv(FMul(At(par, 4), abs(ov, FSub(cos(angleRad), At(par, 1)))),
                 FSub(One, FMul(At(par, 1), cos(angleRad)))),
            FSub(One, pow2(At(par, 1))))

TotalBroadening_v2(ov, ang, par) ==
    sqrt(FAdd(FAdd(pow2(EnergyBroadening_v2(ang, par)),
                   pow2(SolidAngleBroadening_v2(ang, par))),
              pow2(BetaBroadening_v2(ov, ang, par))))

\* TF1::Eval when the class is compiled from the second variant.
TF1Eval_v2(ov, f, x) ==
    CASE f.fcn = "EnergyBroadening" -> EnergyBroadening_v2(<<x>>, f.par)
      [] f.fcn = "SolidAngleBroadening" -> SolidAngleBroadening_v2(<<x>>, f.par)
      [] f.fcn = "BetaBroadening" -> BetaBroadening_v2(ov, <<x>>, f.par)
      [] f.fcn = "TotalBroadening" -> TotalBroadening_v2(ov, <<x>>, f.par)

\* handle->Eval(ang) in a program compiled from the first variant and in
\* the same program compiled from the second: value and value_v2.
EvalVariants(d) ==
    /\ handle # NoHandle
    /\ lastEval' = [done |-> TRUE, ang |-> d,
                    value |-> TF1Eval(absOverload,
                                      Deref(models[handle.obj], handle.mem),
                                      Num(d)),
                    value_v2 |-> TF1Eval_v2(absOverload,
                                      Deref(models[handle.obj], handle.mem),
                                      Num(d)),
                    shift |-> DopplerShift(<<Num(d)>>,
                                  Deref(models[handle.obj], handle.mem).par),
                    shift_v2 |-> DopplerShift_v2(<<Num(d)>>,
                                  Deref(models[handle.obj], handle.mem).par)]
    /\ UNCHANGED <<absOverload, models, handle, gPad>>

NextVariants ==
    \/ \E e \in EnergyVals, b \in BetaVals, dt \in DThetaVals,
          rc \in ResolutionVals, db \in DBetaVals :
          /\ models = << >>
          /\ Construct(e, b, dt, rc, db)
    \/ \E i \in 1..Len(models) : GetEnergyBroadening(i)
    \/ \E i \in 1..Len(models) : GetSolidAngleBroadening(i)
    \/ \E i \in 1..Len(models) : GetBetaBroadening(i)
    \/ \E i \in 1..Len(models) : GetTotalBroadening(i)
    \/ \E d \in Angles : EvalVariants(d)

SpecVariants == Init /\ [][NextVariants]_vars

RoundingTol(par, d, v) ==
    LET c == FSub(One, pow2(At(par, 1)))
        b == FSub(One, FMul(At(par, 1), cos(FMul(Num(d), DegToRad))))
    IN 2 + (SCALE \div (2 * c)) + (IAbs(v) \div ((2 * FMul(c, b)) - 1))

DocumentedDetectedEnergy(m, d) ==
    FDiv(FMul(m.energyMeV_, sqrt(FSub(One, FMul(m.beta_, m.beta_)))),
         FSub(One, FMul(m.beta_, CosDeg(d))))

\* C12: for every E > 0, |beta| < 1 and theta in [0, 180] degrees the
\* Doppler-shifted energy the class computes is the one its documentation
\* states, E' = E sqrt(1 - beta^2) / (1 - beta cos(theta)), up to rounding.
C12_DetectedEnergyAsDocumented ==
    \A o \in Observations :
        LET m == models[o.obj]
        IN (m.energyMeV_ > 0 /\ m.beta_ > 0 - One /\ m.beta_ < One) =>
              IAbs(DopplerShift(<<Num(o.ang)>>, Deref(m, o.mem).par)
                   - DocumentedDetectedEnergy(m, o.ang)) <= 2
====
